---- MODULE Spec2Model ----
(***************************************************************************)
(* A model of the in-memory property graph of graph.go: the node map and   *)
(* the relationship map guarded by one sync.RWMutex, the CRUD operations   *)
(* of Graph, and the recursive connection search listConnections.          *)
(*                                                                         *)
(* Every operation is cut into steps at its lock operations and at its map *)
(* accesses: one action per acquisition (the call and its first Lock/RLock *)
(* are one step, since a blocked caller changes nothing) and one action    *)
(* per map access; the deferred Unlock/RUnlock is part of the step that    *)
(* returns.                                                                *)
(***************************************************************************)
EXTENDS Integers, Sequences, FiniteSets, TLC

\* ------------------------------------------------------------------ bounds
MaxNodes == 3      \* node identities the generator hands out
MaxRels  == 3      \* relationship identities the generator hands out
MaxBuf   == 2      \* byte buffers the callers own
MaxCalls == 3      \* store calls started in one behaviour

Procs == {"p1", "p2"}
NoProc == "none"

NoID   == 0        \* the empty identity "" of the zero values Node{} and Relationship{}
NilBuf == 0        \* the nil []byte of Node{}

NodeIDs  == 1..MaxNodes
RelIDs   == 1..MaxRels
Buffers  == 1..MaxBuf
Bytes    == {0, 1}            \* the content of a one-byte buffer
\* the (name, label) pairs of the callers' nodes, and their relationship labels
NodeKinds == {<<"Bobita", "puppy">>, <<"Azor", "puppy">>, <<"Smaug", "dragon">>}
Names     == {k[1] : k \in NodeKinds}
Labels    == {k[2] : k \in NodeKinds}
RelLabels == {"friends", "enemies", "competitors"}
AnyID     == -1      \* "no filter on this identity" in a ListRelationships call

\* ------------------------------------------------------------------ state
VARIABLES
    nodes,          \* Graph.nodes: identity -> Node
    relationships,  \* Graph.relationships: identity -> Relationship
    readers,        \* the processes that hold the RWMutex in shared mode
    writer,         \* the process that holds it in exclusive mode, or NoProc
    heap,           \* buffer -> its bytes; a Node's Body is a slice, a reference
    nextNodeID,     \* the identity generator's next node identity
    nextRelID,      \* the identity generator's next relationship identity
    pc,             \* each process's position
    args,           \* each process's call: operation and arguments
    loc,            \* each process's locals (AddRelationship, UpdateNode, DeleteNode)
    stack,          \* each process's listConnections frames, innermost last
    ret,            \* each process's returned value
    calls,          \* store calls started so far
    history         \* what the callers asked the store to hold (never read by it)

vars == <<nodes, relationships, readers, writer, heap, nextNodeID, nextRelID,
          pc, args, loc, stack, ret, calls, history>>

\* ------------------------------------------------------------------ values
\* Node{} and Relationship{}
ZeroNode == [id |-> NoID, name |-> "", label |-> "", Body |-> NilBuf]
ZeroRel  == [ID |-> NoID, From |-> NoID, To |-> NoID, Label |-> ""]

\* A Node value a caller holds for identity i: the stored one, or a stale or
\* made-up one (only its identity is read by the store).
CallerNode(i) == IF i \in DOMAIN nodes THEN nodes[i] ELSE [ZeroNode EXCEPT !.id = i]

NoArgs == [op |-> "", id |-> NoID, name |-> "", label |-> "", body |-> NilBuf,
           from |-> ZeroNode, to |-> ZeroNode, fromID |-> AnyID, toID |-> AnyID]
NoLoc  == [node |-> ZeroNode, fromNode |-> ZeroNode, toNode |-> ZeroNode]
\* err is "" for nil, "NotFound" for an error that wraps ErrNotFound
NoRet  == [err |-> "", node |-> ZeroNode, rel |-> ZeroRel, list |-> <<>>]
ErrNotFound == [NoRet EXCEPT !.err = "NotFound"]

\* All orders of a finite set: the orders a range over a Go map can take.
RECURSIVE Perms(_)
Perms(S) == IF S = {} THEN {<<>>}
            ELSE UNION {{<<x>> \o s : s \in Perms(S \ {x})} : x \in S}

Range(s) == {s[i] : i \in 1..Len(s)}

\* m[k] = v on a Go map
MapPut(m, k, v) == [x \in DOMAIN m \cup {k} |-> IF x = k THEN v ELSE m[x]]
\* delete(m, k)
MapDelete(m, k) == [x \in DOMAIN m \ {k} |-> m[x]]

\* The maps a write of a Go map can leave. A Go map is not safe for concurrent
\* writes: with another process inside a writer's critical section the write
\* may be lost. `others` are the processes inside one, `after` is the map the
\* write makes of `before`.
mapWrite(others, before, after) ==
    {after} \cup (IF others # {} THEN {before} ELSE {})

\* The history of the callers' requests, kept beside the store and never read
\* by it: for each identity InsertNode returned and no DeleteNode has removed,
\* the name, label and body InsertNode was called with, and the body of the
\* last UpdateNode that found it, if any.
NoHistory == [inserted |-> <<>>, updated |-> <<>>]
Inserted(h, node, a) ==
    [h EXCEPT !.inserted = MapPut(@, node.id, [id |-> node.id, name |-> a.name,
                                               label |-> a.label, Body |-> a.body])]
Updated(h, id, body) == [h EXCEPT !.updated = MapPut(@, id, body)]
Deleted(h, id) == [inserted |-> MapDelete(h.inserted, id),
                   updated |-> MapDelete(h.updated, id)]

\* newNode: a Node with a fresh identity around the caller's name, label and body
newNode(name, label, body) ==
    [id |-> nextNodeID, name |-> name, label |-> label, Body |-> body]

\* ------------------------------------------------------------------ the lock
\* sync.RWMutex: Lock waits for every holder to leave, RLock for the writer.
CanLock  == writer = NoProc /\ readers = {}
CanRLock == writer = NoProc

Lock(p)    == CanLock /\ writer' = p /\ UNCHANGED readers
Unlock(p)  == writer' = (IF writer = p THEN NoProc ELSE writer) /\ UNCHANGED readers
RLock(p)   == CanRLock /\ readers' = readers \cup {p} /\ UNCHANGED writer
RUnlock(p) == readers' = readers \ {p} /\ UNCHANGED writer

\* The positions just before a write of g.nodes or g.relationships, inside a
\* writer's critical section, and the processes other than p that stand there.
WritesMap == {"InsertNode", "UpdateNodeStore", "DeleteNodeDelete",
              "AddRelationshipStore"}
Writing(p) == {q \in Procs \ {p} : pc[q] \in WritesMap}

\* ------------------------------------------------------------------ calls
CanCall(p) == pc[p] = "idle" /\ calls < MaxCalls

Begin(p, label, a) ==
    /\ pc' = [pc EXCEPT ![p] = label]
    /\ args' = [args EXCEPT ![p] = a]
    /\ calls' = calls + 1

Finish(p, r) ==
    /\ pc' = [pc EXCEPT ![p] = "done"]
    /\ ret' = [ret EXCEPT ![p] = r]

\* The caller takes the result and is ready for its next call.
Return(p) ==
    /\ pc[p] = "done"
    /\ pc' = [pc EXCEPT ![p] = "idle"]
    /\ args' = [args EXCEPT ![p] = NoArgs]
    /\ ret' = [ret EXCEPT ![p] = NoRet]
    /\ loc' = [loc EXCEPT ![p] = NoLoc]
    /\ UNCHANGED <<nodes, relationships, readers, writer, heap, nextNodeID,
                   nextRelID, stack, calls, history>>

\* ------------------------------------------------------------------ InsertNode
\* InsertNodeLock without the g.Lock().
InsertNodeNoLock(p) ==
    /\ CanCall(p)
    /\ nextNodeID <= MaxNodes
    /\ \E kind \in NodeKinds, body \in Buffers :
          Begin(p, "InsertNode", [NoArgs EXCEPT !.op = "InsertNode", !.name = kind[1],
                                                !.label = kind[2], !.body = body])
    /\ UNCHANGED <<nodes, relationships, readers, writer, heap, nextNodeID,
                   nextRelID, loc, stack, ret, history>>

\* g.Lock()
InsertNodeLock(p) ==
    /\ CanCall(p)
    /\ nextNodeID <= MaxNodes
    /\ \E kind \in NodeKinds, body \in Buffers :
          Begin(p, "InsertNode", [NoArgs EXCEPT !.op = "InsertNode", !.name = kind[1],
                                                !.label = kind[2], !.body = body])
    /\ Lock(p)
    /\ UNCHANGED <<nodes, relationships, heap, nextNodeID, nextRelID, loc, stack, ret,
                   history>>

\* InsertNode without the g.nodes[node.id] = node.
InsertNodeNotStored(p) ==
    /\ pc[p] = "InsertNode"
    /\ LET node == newNode(args[p].name, args[p].label, args[p].body) IN
          /\ nextNodeID' = nextNodeID + 1
          /\ Finish(p, [NoRet EXCEPT !.node = node])
          /\ history' = Inserted(history, node, args[p])
    /\ Unlock(p)
    /\ UNCHANGED <<nodes, relationships, heap, nextRelID, args, loc, stack, calls>>

\* node := newNode(name, label, body); g.nodes[node.id] = node; return node
InsertNode(p) ==
    /\ pc[p] = "InsertNode"
    /\ LET node == newNode(args[p].name, args[p].label, args[p].body) IN
          /\ nodes' \in mapWrite(Writing(p), nodes, MapPut(nodes, node.id, node))
          /\ nextNodeID' = nextNodeID + 1
          /\ Finish(p, [NoRet EXCEPT !.node = node])
          /\ history' = Inserted(history, node, args[p])
    /\ Unlock(p)
    /\ UNCHANGED <<relationships, heap, nextRelID, args, loc, stack, calls>>

\* ------------------------------------------------------------------ GetNodeByID
\* g.RLock()
GetNodeByIDRLock(p) ==
    /\ CanCall(p)
    /\ \E id \in NodeIDs \cup {NoID} :
          Begin(p, "GetNodeByID", [NoArgs EXCEPT !.op = "GetNodeByID", !.id = id])
    /\ RLock(p)
    /\ UNCHANGED <<nodes, relationships, heap, nextNodeID, nextRelID, loc, stack, ret,
                   history>>

\* item, ok := g.nodes[id]: the value GetNodeByID returns for id
getNode(id) == IF id \in DOMAIN nodes
               THEN [NoRet EXCEPT !.node = nodes[id]]
               ELSE ErrNotFound

GetNodeByID(p) ==
    /\ pc[p] = "GetNodeByID"
    /\ Finish(p, getNode(args[p].id))
    /\ RUnlock(p)
    /\ UNCHANGED <<nodes, relationships, heap, nextNodeID, nextRelID, args, loc,
                   stack, calls, history>>

\* ------------------------------------------------------------------ ListNodes
\* FilterNodesByLabel(labels...) and FilterNodesByName(names...)
FilterNodesByLabel(labels, node) == \E l \in labels : node.label = l
FilterNodesByName(names, node)   == \E n \in names : node.name = n

\* NodeMatches taking a node that any one clause accepts.
NodeMatchesAny(a, node) ==
    \/ a.label = "" /\ a.name = ""
    \/ a.label # "" /\ FilterNodesByLabel({a.label}, node)
    \/ a.name # ""  /\ FilterNodesByName({a.name}, node)

\* The where clauses of a ListNodes call, as the model draws them: none, one
\* label, one name, or a label and a name.
NodeMatches(a, node) ==
    /\ a.label # "" => FilterNodesByLabel({a.label}, node)
    /\ a.name # ""  => FilterNodesByName({a.name}, node)

\* g.RLock()
ListNodesRLock(p) ==
    /\ CanCall(p)
    /\ \E name \in Names \cup {""}, label \in Labels \cup {""} :
          Begin(p, "ListNodes", [NoArgs EXCEPT !.op = "ListNodes", !.name = name,
                                               !.label = label])
    /\ RLock(p)
    /\ UNCHANGED <<nodes, relationships, heap, nextNodeID, nextRelID, loc, stack, ret,
                   history>>

\* the range over g.nodes, in any order
ListNodes(p) ==
    /\ pc[p] = "ListNodes"
    /\ \E order \in Perms({i \in DOMAIN nodes : NodeMatches(args[p], nodes[i])}) :
          Finish(p, [NoRet EXCEPT !.list = [k \in 1..Len(order) |-> nodes[order[k]]]])
    /\ RUnlock(p)
    /\ UNCHANGED <<nodes, relationships, heap, nextNodeID, nextRelID, args, loc,
                   stack, calls, history>>

\* ------------------------------------------------------------------ UpdateNode
\* UpdateNodeLock without the g.Lock().
UpdateNodeNoLock(p) ==
    /\ CanCall(p)
    /\ \E id \in NodeIDs \cup {NoID}, body \in Buffers :
          Begin(p, "UpdateNode", [NoArgs EXCEPT !.op = "UpdateNode", !.id = id,
                                                !.body = body])
    /\ UNCHANGED <<nodes, relationships, readers, writer, heap, nextNodeID,
                   nextRelID, loc, stack, ret, history>>

\* g.Lock()
UpdateNodeLock(p) ==
    /\ CanCall(p)
    /\ \E id \in NodeIDs \cup {NoID}, body \in Buffers :
          Begin(p, "UpdateNode", [NoArgs EXCEPT !.op = "UpdateNode", !.id = id,
                                                !.body = body])
    /\ Lock(p)
    /\ UNCHANGED <<nodes, relationships, heap, nextNodeID, nextRelID, loc, stack, ret,
                   history>>

\* node, ok := g.nodes[nodeID]; if !ok { return Node{}, ErrNotFound }
UpdateNodeLookup(p) ==
    /\ pc[p] = "UpdateNode"
    /\ IF args[p].id \in DOMAIN nodes
       THEN /\ pc' = [pc EXCEPT ![p] = "UpdateNodeStore"]
            /\ loc' = [loc EXCEPT ![p].node = nodes[args[p].id]]
            /\ UNCHANGED <<ret, readers, writer>>
       ELSE /\ Finish(p, ErrNotFound)
            /\ Unlock(p)
            /\ UNCHANGED loc
    /\ UNCHANGED <<nodes, relationships, heap, nextNodeID, nextRelID, args, stack,
                   calls, history>>

\* updatedNode building a new Node around the body in place of changing the
\* stored one.
updatedNodeFresh(node, body) == [ZeroNode EXCEPT !.id = node.id, !.Body = body]

\* node.Body = body
updatedNode(node, body) == [node EXCEPT !.Body = body]

\* g.nodes[node.id] = node; return node, nil
UpdateNodeStore(p) ==
    /\ pc[p] = "UpdateNodeStore"
    /\ LET node == updatedNode(loc[p].node, args[p].body) IN
          /\ nodes' \in mapWrite(Writing(p), nodes, MapPut(nodes, node.id, node))
          /\ Finish(p, [NoRet EXCEPT !.node = node])
    /\ history' = Updated(history, args[p].id, args[p].body)
    /\ Unlock(p)
    /\ UNCHANGED <<relationships, heap, nextNodeID, nextRelID, args, loc, stack,
                   calls>>

\* ------------------------------------------------------------------ DeleteNode
\* g.Lock()
DeleteNodeLock(p) ==
    /\ CanCall(p)
    /\ \E id \in NodeIDs \cup {NoID} :
          Begin(p, "DeleteNode", [NoArgs EXCEPT !.op = "DeleteNode", !.id = id])
    /\ Lock(p)
    /\ UNCHANGED <<nodes, relationships, heap, nextNodeID, nextRelID, loc, stack, ret,
                   history>>

\* DeleteNodeLookup returning nil for an identity that is not stored.
DeleteNodeLookupSilent(p) ==
    /\ pc[p] = "DeleteNode"
    /\ IF args[p].id \in DOMAIN nodes
       THEN /\ pc' = [pc EXCEPT ![p] = "DeleteNodeDelete"]
            /\ loc' = [loc EXCEPT ![p].node = nodes[args[p].id]]
            /\ UNCHANGED <<ret, readers, writer>>
       ELSE /\ Finish(p, NoRet)
            /\ Unlock(p)
            /\ UNCHANGED loc
    /\ UNCHANGED <<nodes, relationships, heap, nextNodeID, nextRelID, args, stack,
                   calls, history>>

\* node, ok := g.nodes[nodeID]; if !ok { return ErrNotFound }
DeleteNodeLookup(p) ==
    /\ pc[p] = "DeleteNode"
    /\ IF args[p].id \in DOMAIN nodes
       THEN /\ pc' = [pc EXCEPT ![p] = "DeleteNodeDelete"]
            /\ loc' = [loc EXCEPT ![p].node = nodes[args[p].id]]
            /\ UNCHANGED <<ret, readers, writer>>
       ELSE /\ Finish(p, ErrNotFound)
            /\ Unlock(p)
            /\ UNCHANGED loc
    /\ UNCHANGED <<nodes, relationships, heap, nextNodeID, nextRelID, args, stack,
                   calls, history>>

\* DeleteNodeDelete removing the relationships of the node with it.
DeleteNodeCascade(p) ==
    /\ pc[p] = "DeleteNodeDelete"
    /\ nodes' \in mapWrite(Writing(p), nodes, MapDelete(nodes, loc[p].node.id))
    /\ relationships' =
          [r \in {x \in DOMAIN relationships :
                     /\ relationships[x].From # loc[p].node.id
                     /\ relationships[x].To # loc[p].node.id} |-> relationships[r]]
    /\ Finish(p, NoRet)
    /\ history' = Deleted(history, args[p].id)
    /\ Unlock(p)
    /\ UNCHANGED <<heap, nextNodeID, nextRelID, args, loc, stack, calls>>

\* delete(g.nodes, node.id); return nil
DeleteNodeDelete(p) ==
    /\ pc[p] = "DeleteNodeDelete"
    /\ nodes' \in mapWrite(Writing(p), nodes, MapDelete(nodes, loc[p].node.id))
    /\ Finish(p, NoRet)
    /\ history' = Deleted(history, args[p].id)
    /\ Unlock(p)
    /\ UNCHANGED <<relationships, heap, nextNodeID, nextRelID, args, loc, stack,
                   calls>>

\* ------------------------------------------------------------------ AddRelationship
\* newRelationship: a Relationship with a fresh identity from fromNode to toNode
newRelationship(fromNode, toNode, label) ==
    [ID |-> nextRelID, From |-> fromNode.id, To |-> toNode.id, Label |-> label]

\* AddRelationship calls that have not stored their relationship yet
AddingRelationship == {q \in Procs : args[q].op = "AddRelationship" /\ pc[q] # "done"}

\* fromNode, err := g.GetNodeByID(from.GetID()): its g.RLock()
AddRelationshipRLockFrom(p) ==
    /\ CanCall(p)
    /\ nextRelID + Cardinality(AddingRelationship) <= MaxRels
    /\ \E i \in NodeIDs \cup {NoID}, j \in NodeIDs \cup {NoID}, label \in RelLabels :
          Begin(p, "AddRelationshipFrom",
                [NoArgs EXCEPT !.op = "AddRelationship", !.from = CallerNode(i),
                               !.to = CallerNode(j), !.label = label])
    /\ RLock(p)
    /\ UNCHANGED <<nodes, relationships, heap, nextNodeID, nextRelID, loc, stack, ret,
                   history>>

\* AddRelationshipGetFrom taking the caller's Node for the source in place of
\* looking its identity up.
AddRelationshipGetFromTrusting(p) ==
    /\ pc[p] = "AddRelationshipFrom"
    /\ pc' = [pc EXCEPT ![p] = "AddRelationshipRLockTo"]
    /\ loc' = [loc EXCEPT ![p].fromNode = args[p].from]
    /\ RUnlock(p)
    /\ UNCHANGED <<nodes, relationships, heap, nextNodeID, nextRelID, args, stack,
                   ret, calls, history>>

\* GetNodeByID(from.GetID()) reads g.nodes and returns;
\* if err != nil { return Relationship{}, err }
AddRelationshipGetFrom(p) ==
    /\ pc[p] = "AddRelationshipFrom"
    /\ LET got == getNode(args[p].from.id) IN
          IF got.err # ""
          THEN /\ Finish(p, ErrNotFound)
               /\ UNCHANGED loc
          ELSE /\ pc' = [pc EXCEPT ![p] = "AddRelationshipRLockTo"]
               /\ loc' = [loc EXCEPT ![p].fromNode = got.node]
               /\ UNCHANGED ret
    /\ RUnlock(p)
    /\ UNCHANGED <<nodes, relationships, heap, nextNodeID, nextRelID, args, stack,
                   calls, history>>

\* toNode, err := g.GetNodeByID(to.GetID()): its g.RLock()
AddRelationshipRLockTo(p) ==
    /\ pc[p] = "AddRelationshipRLockTo"
    /\ RLock(p)
    /\ pc' = [pc EXCEPT ![p] = "AddRelationshipTo"]
    /\ UNCHANGED <<nodes, relationships, heap, nextNodeID, nextRelID, args, loc,
                   stack, ret, calls, history>>

\* AddRelationshipGetTo with the error of the lookup dropped.
AddRelationshipGetToUnchecked(p) ==
    /\ pc[p] = "AddRelationshipTo"
    /\ pc' = [pc EXCEPT ![p] = "AddRelationshipLock"]
    /\ loc' = [loc EXCEPT ![p].toNode = getNode(args[p].to.id).node]
    /\ RUnlock(p)
    /\ UNCHANGED <<nodes, relationships, heap, nextNodeID, nextRelID, args, stack,
                   ret, calls, history>>

\* GetNodeByID(to.GetID()) reads g.nodes and returns;
\* if err != nil { return Relationship{}, err }
AddRelationshipGetTo(p) ==
    /\ pc[p] = "AddRelationshipTo"
    /\ LET got == getNode(args[p].to.id) IN
          IF got.err # ""
          THEN /\ Finish(p, ErrNotFound)
               /\ UNCHANGED loc
          ELSE /\ pc' = [pc EXCEPT ![p] = "AddRelationshipLock"]
               /\ loc' = [loc EXCEPT ![p].toNode = got.node]
               /\ UNCHANGED ret
    /\ RUnlock(p)
    /\ UNCHANGED <<nodes, relationships, heap, nextNodeID, nextRelID, args, stack,
                   calls, history>>

\* AddRelationshipLock without the g.Lock().
AddRelationshipNoLock(p) ==
    /\ pc[p] = "AddRelationshipLock"
    /\ pc' = [pc EXCEPT ![p] = "AddRelationshipStore"]
    /\ UNCHANGED <<nodes, relationships, readers, writer, heap, nextNodeID,
                   nextRelID, args, loc, stack, ret, calls, history>>

\* g.Lock()
AddRelationshipLock(p) ==
    /\ pc[p] = "AddRelationshipLock"
    /\ Lock(p)
    /\ pc' = [pc EXCEPT ![p] = "AddRelationshipStore"]
    /\ UNCHANGED <<nodes, relationships, heap, nextNodeID, nextRelID, args, loc,
                   stack, ret, calls, history>>

\* AddRelationshipStore replacing a stored relationship between the same two
\* nodes in place of adding one.
AddRelationshipStoreUpsert(p) ==
    /\ pc[p] = "AddRelationshipStore"
    /\ LET rel == newRelationship(loc[p].fromNode, loc[p].toNode, args[p].label)
           same == {r \in DOMAIN relationships :
                       /\ relationships[r].From = rel.From
                       /\ relationships[r].To = rel.To}
           kept == IF same = {} THEN rel ELSE [rel EXCEPT !.ID = CHOOSE r \in same : TRUE]
       IN /\ relationships' = MapPut(relationships, kept.ID, kept)
          /\ nextRelID' = nextRelID + 1
          /\ Finish(p, [NoRet EXCEPT !.rel = kept])
    /\ Unlock(p)
    /\ UNCHANGED <<nodes, heap, nextNodeID, args, loc, stack, calls, history>>

\* rel := newRelationship(fromNode, toNode, label); g.relationships[rel.ID] = rel
AddRelationshipStore(p) ==
    /\ pc[p] = "AddRelationshipStore"
    /\ LET rel == newRelationship(loc[p].fromNode, loc[p].toNode, args[p].label) IN
          /\ relationships' \in mapWrite(Writing(p), relationships,
                                        MapPut(relationships, rel.ID, rel))
          /\ nextRelID' = nextRelID + 1
          /\ Finish(p, [NoRet EXCEPT !.rel = rel])
    /\ Unlock(p)
    /\ UNCHANGED <<nodes, heap, nextNodeID, args, loc, stack, calls, history>>

\* ------------------------------------------------------------------ GetRelationshipByID
\* g.RLock()
GetRelationshipByIDRLock(p) ==
    /\ CanCall(p)
    /\ \E id \in RelIDs \cup {NoID} :
          Begin(p, "GetRelationshipByID",
                [NoArgs EXCEPT !.op = "GetRelationshipByID", !.id = id])
    /\ RLock(p)
    /\ UNCHANGED <<nodes, relationships, heap, nextNodeID, nextRelID, loc, stack, ret,
                   history>>

\* item, ok := g.relationships[id]
GetRelationshipByID(p) ==
    /\ pc[p] = "GetRelationshipByID"
    /\ Finish(p, IF args[p].id \in DOMAIN relationships
                 THEN [NoRet EXCEPT !.rel = relationships[args[p].id]]
                 ELSE ErrNotFound)
    /\ RUnlock(p)
    /\ UNCHANGED <<nodes, relationships, heap, nextNodeID, nextRelID, args, loc,
                   stack, calls, history>>

\* ------------------------------------------------------------------ ListRelationships
FilterRelByLabel(label, rel) == rel.Label = label
FilterRelByTo(toID, rel)     == rel.To = toID
FilterRelByFrom(fromID, rel) == rel.From = fromID

\* The filters of a ListRelationships call, as the model draws them: any of a
\* label, a source identity and a destination identity.
RelMatches(a, rel) ==
    /\ a.label # ""    => FilterRelByLabel(a.label, rel)
    /\ a.fromID # AnyID => FilterRelByFrom(a.fromID, rel)
    /\ a.toID # AnyID   => FilterRelByTo(a.toID, rel)

\* The slices the range over g.relationships can build for the filters a.
listRelationships(a) ==
    {[k \in 1..Len(order) |-> relationships[order[k]]] :
        order \in Perms({i \in DOMAIN relationships : RelMatches(a, relationships[i])})}

\* g.RLock()
ListRelationshipsRLock(p) ==
    /\ CanCall(p)
    /\ \E label \in RelLabels \cup {""}, f \in {AnyID, 1}, t \in {AnyID, 2} :
          Begin(p, "ListRelationships",
                [NoArgs EXCEPT !.op = "ListRelationships", !.label = label,
                               !.fromID = f, !.toID = t])
    /\ RLock(p)
    /\ UNCHANGED <<nodes, relationships, heap, nextNodeID, nextRelID, loc, stack, ret,
                   history>>

ListRelationships(p) ==
    /\ pc[p] = "ListRelationships"
    /\ \E list \in listRelationships(args[p]) : Finish(p, [NoRet EXCEPT !.list = list])
    /\ RUnlock(p)
    /\ UNCHANGED <<nodes, relationships, heap, nextNodeID, nextRelID, args, loc,
                   stack, calls, history>>

\* ------------------------------------------------------------------ ListConnections
\* A frame of listConnections(from, to, visited): its arguments and locals.
\* rels is the slice ListRelationships returned and i the range's position in
\* it; toCheck is the copy of visited made for rels[i].
Frame(from, visited) ==
    [from |-> from, visited |-> visited, chains |-> <<>>, rels |-> <<>>, i |-> 1,
     toCheck |-> {}]

Top(p) == stack[p][Len(stack[p])]
SetTop(p, f) == stack' = [stack EXCEPT ![p] = [@ EXCEPT ![Len(@)] = f]]

\* copyMap(m): a new map with m's keys
copyMap(m) == {k \in m : TRUE}

\* &ChainLink{node: from, rel: rel, next: next}, a chain being the sequence of
\* its links; the last link, &ChainLink{node: to}, has the zero Relationship.
ChainLink(node, rel, next) == <<[node |-> node, rel |-> rel]>> \o next

\* return g.listConnections(from, to, map[string]struct{}{})
ListConnections(p) ==
    /\ CanCall(p)
    /\ \E i \in NodeIDs, j \in NodeIDs :
          /\ Begin(p, "listConnections",
                   [NoArgs EXCEPT !.op = "ListConnections", !.from = CallerNode(i),
                                  !.to = CallerNode(j)])
          /\ stack' = [stack EXCEPT ![p] = <<Frame(CallerNode(i), {})>>]
    /\ UNCHANGED <<nodes, relationships, readers, writer, heap, nextNodeID,
                   nextRelID, loc, ret, history>>

\* listConnectionsEnter without the visited[from.id] = struct{}{}.
listConnectionsEnterNoMark(p) ==
    /\ pc[p] = "listConnections"
    /\ SetTop(p, [Top(p) EXCEPT !.chains = <<>>])
    /\ RLock(p)
    /\ pc' = [pc EXCEPT ![p] = "listConnectionsList"]
    /\ UNCHANGED <<nodes, relationships, heap, nextNodeID, nextRelID, args, loc,
                   ret, calls, history>>

\* chains := []*ChainLink{}; visited[from.id] = struct{}{};
\* g.ListRelationships(FilterRelByFrom(from.GetID())): its g.RLock()
listConnectionsEnter(p) ==
    /\ pc[p] = "listConnections"
    /\ SetTop(p, [Top(p) EXCEPT !.chains = <<>>,
                                !.visited = Top(p).visited \cup {Top(p).from.id}])
    /\ RLock(p)
    /\ pc' = [pc EXCEPT ![p] = "listConnectionsList"]
    /\ UNCHANGED <<nodes, relationships, heap, nextNodeID, nextRelID, args, loc,
                   ret, calls, history>>

\* ListRelationships ranges over g.relationships and returns
listConnectionsList(p) ==
    /\ pc[p] = "listConnectionsList"
    /\ \E list \in listRelationships([NoArgs EXCEPT !.fromID = Top(p).from.id]) :
          SetTop(p, [Top(p) EXCEPT !.rels = list, !.i = 1])
    /\ RUnlock(p)
    /\ pc' = [pc EXCEPT ![p] = "listConnectionsLoop"]
    /\ UNCHANGED <<nodes, relationships, heap, nextNodeID, nextRelID, args, loc,
                   ret, calls, history>>

\* One turn of the range over the relationships, up to the read of g.nodes:
\*   toCheck := copyMap(visited)
\*   if _, ok := visited[rel.To]; ok { continue }
\*   toCheck[rel.To] = struct{}{}
\*   if rel.To == to.id { chains = append(chains, from -rel-> to); continue }
\* visitRel with toCheck := visited in place of the copy: the range's next turns
\* see the identities its earlier turns added.
visitRelShared(f, to) ==
    LET rel == f.rels[f.i]
    IN  IF rel.To \in f.visited
        THEN [f EXCEPT !.i = f.i + 1]
        ELSE IF rel.To = to.id
        THEN [f EXCEPT !.i = f.i + 1,
                       !.visited = f.visited \cup {rel.To},
                       !.chains = Append(f.chains,
                                         ChainLink(f.from, rel, ChainLink(to, ZeroRel, <<>>)))]
        ELSE [f EXCEPT !.visited = f.visited \cup {rel.To},
                       !.toCheck = f.visited \cup {rel.To}]

\* visitRel without the test of visited.
visitRelRevisit(f, to) ==
    LET rel == f.rels[f.i]
    IN  IF rel.To = to.id
        THEN [f EXCEPT !.i = f.i + 1,
                       !.chains = Append(f.chains,
                                         ChainLink(f.from, rel, ChainLink(to, ZeroRel, <<>>)))]
        ELSE [f EXCEPT !.toCheck = copyMap(f.visited) \cup {rel.To}]

\* visitRel testing rel.To == to.id before the test of visited.
visitRelTargetFirst(f, to) ==
    LET rel == f.rels[f.i]
        toCheck == copyMap(f.visited)
    IN  IF rel.To = to.id
        THEN [f EXCEPT !.i = f.i + 1,
                       !.chains = Append(f.chains,
                                         ChainLink(f.from, rel, ChainLink(to, ZeroRel, <<>>)))]
        ELSE IF rel.To \in f.visited
        THEN [f EXCEPT !.i = f.i + 1]
        ELSE [f EXCEPT !.toCheck = toCheck \cup {rel.To}]

visitRel(f, to) ==
    LET rel == f.rels[f.i]
        toCheck == copyMap(f.visited)
    IN  IF rel.To \in f.visited
        THEN [f EXCEPT !.i = f.i + 1]
        ELSE IF rel.To = to.id
        THEN [f EXCEPT !.i = f.i + 1,
                       !.chains = Append(f.chains,
                                         ChainLink(f.from, rel, ChainLink(to, ZeroRel, <<>>)))]
        ELSE [f EXCEPT !.toCheck = toCheck \cup {rel.To}]

listConnectionsLoop(p) ==
    /\ pc[p] = "listConnectionsLoop"
    /\ Top(p).i <= Len(Top(p).rels)
    /\ LET f == visitRel(Top(p), args[p].to) IN
          /\ SetTop(p, f)
          /\ pc' = [pc EXCEPT ![p] = IF f.i = Top(p).i THEN "listConnectionsLookup"
                                     ELSE "listConnectionsLoop"]
    /\ UNCHANGED <<nodes, relationships, readers, writer, heap, nextNodeID,
                   nextRelID, args, loc, ret, calls, history>>

\* listConnectionsLookup without the test of ok: the search goes on from the
\* zero Node the map gives for an identity it does not hold.
listConnectionsLookupUnchecked(p) ==
    /\ pc[p] = "listConnectionsLookup"
    /\ LET rel == Top(p).rels[Top(p).i]
           next == IF rel.To \in DOMAIN nodes THEN nodes[rel.To] ELSE ZeroNode
       IN /\ stack' = [stack EXCEPT ![p] = Append(@, Frame(next, Top(p).toCheck))]
          /\ pc' = [pc EXCEPT ![p] = "listConnections"]
    /\ UNCHANGED <<nodes, relationships, readers, writer, heap, nextNodeID,
                   nextRelID, args, loc, ret, calls, history>>

\* next, ok := g.nodes[rel.To]; if !ok { continue };
\* g.listConnections(next, to, toCheck)
listConnectionsLookup(p) ==
    /\ pc[p] = "listConnectionsLookup"
    /\ LET rel == Top(p).rels[Top(p).i] IN
          IF rel.To \in DOMAIN nodes
          THEN /\ stack' = [stack EXCEPT ![p] =
                               Append(@, Frame(nodes[rel.To], Top(p).toCheck))]
               /\ pc' = [pc EXCEPT ![p] = "listConnections"]
          ELSE /\ SetTop(p, [Top(p) EXCEPT !.i = Top(p).i + 1])
               /\ pc' = [pc EXCEPT ![p] = "listConnectionsLoop"]
    /\ UNCHANGED <<nodes, relationships, readers, writer, heap, nextNodeID,
                   nextRelID, args, loc, ret, calls, history>>

\* The writers that are inside their critical section just before a write of
\* g.nodes.
WritingNodes == {q \in Procs : pc[q] \in {"InsertNode", "UpdateNodeStore",
                                           "DeleteNodeDelete"}}

\* The read of g.nodes in listConnections is made without the lock. When it
\* runs beside a write of the map, the Go runtime may also end the program
\* ("fatal error: concurrent map read and map write"): every process stops.
listConnectionsLookupRace(p) ==
    /\ pc[p] = "listConnectionsLookup"
    /\ WritingNodes # {}
    /\ pc' = [q \in Procs |-> "fatal"]
    /\ UNCHANGED <<nodes, relationships, readers, writer, heap, nextNodeID,
                   nextRelID, args, loc, stack, ret, calls, history>>

\* Beside a write of g.nodes the unlocked read may also miss a key the map
\* holds (the writer is moving its buckets), or find the key and copy the
\* value the writer has just cleared: the zero Node, with ok true.
listConnectionsLookupTorn(p) ==
    /\ pc[p] = "listConnectionsLookup"
    /\ WritingNodes # {}
    /\ \/ /\ SetTop(p, [Top(p) EXCEPT !.i = Top(p).i + 1])
          /\ pc' = [pc EXCEPT ![p] = "listConnectionsLoop"]
       \/ /\ stack' = [stack EXCEPT ![p] = Append(@, Frame(ZeroNode, Top(p).toCheck))]
          /\ pc' = [pc EXCEPT ![p] = "listConnections"]
    /\ UNCHANGED <<nodes, relationships, readers, writer, heap, nextNodeID,
                   nextRelID, args, loc, ret, calls, history>>

\* withConnections appending the chains of the callee as they are, without
\* the link of this invocation.
withConnectionsSkipLink(f, connections) ==
    [f EXCEPT !.i = f.i + 1, !.chains = f.chains \o connections]

\* for _, cons := range connections { chains = append(chains, from -rel-> cons) }
withConnections(f, connections) ==
    [f EXCEPT !.i = f.i + 1,
              !.chains = f.chains \o [k \in 1..Len(connections) |->
                                         ChainLink(f.from, f.rels[f.i], connections[k])]]

\* return chains: to the calling frame, or to the caller of ListConnections
listConnectionsReturn(p) ==
    /\ pc[p] = "listConnectionsLoop"
    /\ Top(p).i > Len(Top(p).rels)
    /\ IF Len(stack[p]) = 1
       THEN /\ stack' = [stack EXCEPT ![p] = <<>>]
            /\ Finish(p, [NoRet EXCEPT !.list = Top(p).chains])
       ELSE /\ stack' = [stack EXCEPT ![p] =
                            [k \in 1..(Len(@) - 1) |->
                                IF k = Len(@) - 1
                                THEN withConnections(@[k], Top(p).chains)
                                ELSE @[k]]]
            /\ UNCHANGED <<pc, ret>>
    /\ UNCHANGED <<nodes, relationships, readers, writer, heap, nextNodeID,
                   nextRelID, args, loc, calls, history>>

\* ------------------------------------------------------------------ the callers
\* A caller writes a byte of a buffer it owns: one it passed to InsertNode or
\* UpdateNode, which is also the Body of every Node the store returned for it.
MutateBuffer(p) ==
    /\ pc[p] = "idle"
    /\ \E b \in Buffers, v \in Bytes :
          /\ heap[b] # v
          /\ heap' = [heap EXCEPT ![b] = v]
    /\ UNCHANGED <<nodes, relationships, readers, writer, nextNodeID, nextRelID,
                   pc, args, loc, stack, ret, calls, history>>

\* ------------------------------------------------------------------ Spec
\* The processes at rest, with `done` calls behind them.
AtRest(done) ==
    /\ readers = {}
    /\ writer = NoProc
    /\ pc = [p \in Procs |-> "idle"]
    /\ args = [p \in Procs |-> NoArgs]
    /\ loc = [p \in Procs |-> NoLoc]
    /\ stack = [p \in Procs |-> <<>>]
    /\ ret = [p \in Procs |-> NoRet]
    /\ calls = done

\* NewGraph(): both maps empty, the lock free
Init ==
    /\ nodes = <<>>
    /\ relationships = <<>>
    /\ heap = [b \in Buffers |-> 0]
    /\ nextNodeID = 1
    /\ nextRelID = 1
    /\ history = NoHistory
    /\ AtRest(0)

InsertNodeSteps(p) ==
    \/ InsertNodeLock(p)
    \/ InsertNode(p)

GetNodeByIDSteps(p) ==
    \/ GetNodeByIDRLock(p)
    \/ GetNodeByID(p)

ListNodesSteps(p) ==
    \/ ListNodesRLock(p)
    \/ ListNodes(p)

UpdateNodeSteps(p) ==
    \/ UpdateNodeLock(p)
    \/ UpdateNodeLookup(p)
    \/ UpdateNodeStore(p)

DeleteNodeSteps(p) ==
    \/ DeleteNodeLock(p)
    \/ DeleteNodeLookup(p)
    \/ DeleteNodeDelete(p)

AddRelationshipSteps(p) ==
    \/ AddRelationshipRLockFrom(p)
    \/ AddRelationshipGetFrom(p)
    \/ AddRelationshipRLockTo(p)
    \/ AddRelationshipGetTo(p)
    \/ AddRelationshipLock(p)
    \/ AddRelationshipStore(p)

GetRelationshipByIDSteps(p) ==
    \/ GetRelationshipByIDRLock(p)
    \/ GetRelationshipByID(p)

ListRelationshipsSteps(p) ==
    \/ ListRelationshipsRLock(p)
    \/ ListRelationships(p)

ListConnectionsSteps(p) ==
    \/ ListConnections(p)
    \/ listConnectionsEnter(p)
    \/ listConnectionsList(p)
    \/ listConnectionsLoop(p)
    \/ listConnectionsLookup(p)
    \/ listConnectionsReturn(p)

\* The whole store, from NewGraph().
Next ==
    \E p \in Procs :
        \/ InsertNodeSteps(p)
        \/ GetNodeByIDSteps(p)
        \/ ListNodesSteps(p)
        \/ UpdateNodeSteps(p)
        \/ DeleteNodeSteps(p)
        \/ AddRelationshipSteps(p)
        \/ GetRelationshipByIDSteps(p)
        \/ ListRelationshipsSteps(p)
        \/ ListConnectionsSteps(p)
        \/ listConnectionsLookupRace(p)
        \/ listConnectionsLookupTorn(p)
        \/ MutateBuffer(p)
        \/ Return(p)

Spec == Init /\ [][Next]_vars

\* ------------------------------------------------------------------ SpecNodes
\* The node operations and the callers' writes to their buffers, from NewGraph().
NextNodes ==
    \E p \in Procs :
        \/ InsertNodeSteps(p)
        \/ GetNodeByIDSteps(p)
        \/ ListNodesSteps(p)
        \/ UpdateNodeSteps(p)
        \/ DeleteNodeSteps(p)
        \/ MutateBuffer(p)
        \/ Return(p)

SpecNodes == Init /\ [][NextNodes]_vars

\* ------------------------------------------------------------------ SpecConn
\* A store some earlier calls have built: any of the nodes 1..MaxNodes present
\* (the others deleted), up to MaxRels relationships between any of them, one
\* call left.
KindOf(i) == IF i = 1 THEN <<"Bobita", "puppy">>
             ELSE IF i = 2 THEN <<"Azor", "puppy">> ELSE <<"Smaug", "dragon">>
GraphNode(i) == [id |-> i, name |-> KindOf(i)[1], label |-> KindOf(i)[2], Body |-> 1]
GraphRel(i, ends) == [ID |-> i, From |-> ends[1], To |-> ends[2], Label |-> "friends"]

\* The stores with the node identities 1..issued handed out and at most `rels`
\* relationships, the processes at rest with `done` calls behind them.
StoreAfter(issued, rels, done) ==
    /\ \E present \in SUBSET (1..issued) : nodes = [i \in present |-> GraphNode(i)]
    /\ \E k \in 0..rels : \E ends \in [1..k -> (1..issued) \X (1..issued)] :
          /\ relationships = [i \in 1..k |-> GraphRel(i, ends[i])]
          /\ nextRelID = k + 1
    /\ heap = [b \in Buffers |-> 0]
    /\ nextNodeID = issued + 1
    /\ history = [NoHistory EXCEPT !.inserted = nodes]
    /\ AtRest(done)

InitGraph == StoreAfter(MaxNodes, MaxRels, MaxCalls - 1)

Main == "p1"

\* ListConnections alone, with no concurrent writer.
NextConn ==
    \/ ListConnectionsSteps(Main)
    \/ Return(Main)

SpecConn == InitGraph /\ [][NextConn]_vars

\* ------------------------------------------------------------------ C1
\* The simple directed paths from `from` to `to`, each the sequence of the
\* identities of its relationships r1..rk: r1 leaves from.id, rk enters to.id,
\* each ri enters the node r(i+1) leaves, no node identity occurs twice along
\* the path, and every intermediate node is in the node map.
PathNodes(from, path) ==
    <<from.id>> \o [k \in 1..Len(path) |-> relationships[path[k]].To]

IsSimplePath(from, to, path) ==
    LET ids == PathNodes(from, path) IN
    /\ relationships[path[1]].From = from.id
    /\ relationships[path[Len(path)]].To = to.id
    /\ \A k \in 1..(Len(path) - 1) :
          /\ relationships[path[k]].To = relationships[path[k + 1]].From
          /\ relationships[path[k]].To \in DOMAIN nodes
    /\ \A a, b \in 1..Len(ids) : a # b => ids[a] # ids[b]

SimplePaths(from, to) ==
    {path \in UNION {[1..k -> DOMAIN relationships] :
                        k \in 1..Cardinality(DOMAIN relationships)} :
        IsSimplePath(from, to, path)}

\* The chain of a path: a link per relationship, holding the node it leaves,
\* then the link of `to`.
ChainOf(from, to, path) ==
    [k \in 1..(Len(path) + 1) |->
        [node |-> IF k = 1 THEN from
                  ELSE IF k = Len(path) + 1 THEN to
                  ELSE nodes[relationships[path[k - 1]].To],
         rel  |-> IF k = Len(path) + 1 THEN ZeroRel ELSE relationships[path[k]]]]

Returned(p, op) == pc[p] = "done" /\ args[p].op = op

NoDuplicates(list) == \A a, b \in 1..Len(list) : a # b => list[a] # list[b]

\* C1: with no concurrent writer, ListConnections(from, to) with
\* from.id # to.id returns exactly one chain per simple directed path from
\* `from` to `to` (paths told apart by their relationships), and no other chain.
C1_OneChainPerSimplePath ==
    (Returned(Main, "ListConnections") /\ args[Main].from.id # args[Main].to.id) =>
        /\ NoDuplicates(ret[Main].list)
        /\ Range(ret[Main].list) =
              {ChainOf(args[Main].from, args[Main].to, path) :
                  path \in SimplePaths(args[Main].from, args[Main].to)}

\* Two parallel relationships on a path of two hops gave two chains over the
\* same nodes.
C1_Witness ==
    /\ Returned(Main, "ListConnections")
    /\ args[Main].from.id # args[Main].to.id
    /\ \E a, b \in 1..Len(ret[Main].list) :
          LET x == ret[Main].list[a]
              y == ret[Main].list[b]
          IN  /\ x # y
              /\ Len(x) = 3
              /\ Len(y) = 3
              /\ \A k \in 1..3 : x[k].node = y[k].node

\* ------------------------------------------------------------------ C2
\* The identities the search can stand on: the source and the stored nodes.
SearchIDs(p) == DOMAIN nodes \cup {args[p].from.id}

\* Along the frames of the recursion the visited set strictly grows, and the
\* depth never exceeds the number of node identities.
VisitedGrows(p) ==
    /\ \A k \in 1..(Len(stack[p]) - 1) :
          /\ stack[p][k].visited \subseteq stack[p][k + 1].visited
          /\ stack[p][k].visited # stack[p][k + 1].visited
    /\ Len(stack[p]) <= Cardinality(SearchIDs(p))

\* The result is a list of simple paths: no chain repeats a node identity.
SimpleChains(list) ==
    \A c \in 1..Len(list) :
        \A a, b \in 1..Len(list[c]) : a # b => list[c][a].node.id # list[c][b].node.id

\* C2: on every finite graph (directed cycles, self-loops and parallel
\* relationships included) ListConnections terminates: the visited set
\* strictly grows along the recursion, whose depth never exceeds the number
\* of node identities, and the result holds simple paths only.
C2_Terminates ==
    /\ [](VisitedGrows(Main) /\
          (Returned(Main, "ListConnections") => SimpleChains(ret[Main].list)))
    /\ (pc[Main] = "listConnections") ~> Returned(Main, "ListConnections")

\* The search stood three frames deep in a graph with a directed cycle
\* through the source.
C2_Witness ==
    /\ Len(stack[Main]) = 3
    /\ \E r \in DOMAIN relationships :
          /\ relationships[r].To = args[Main].from.id
          /\ relationships[r].From = stack[Main][3].from.id

\* ListConnections alone, never left unfinished.
SpecConnFair == SpecConn /\ WF_vars(NextConn)

\* ------------------------------------------------------------------ SpecConc
\* ListConnections beside the writers: a store with one node identity and one
\* relationship identity still to hand out, two calls left.
InitConc == StoreAfter(MaxNodes - 1, MaxRels - 1, MaxCalls - 2)

NextConc ==
    \E p \in Procs :
        \/ ListConnectionsSteps(p)
        \/ listConnectionsLookupRace(p)
        \/ listConnectionsLookupTorn(p)
        \/ InsertNodeSteps(p)
        \/ UpdateNodeSteps(p)
        \/ DeleteNodeSteps(p)
        \/ AddRelationshipSteps(p)
        \/ Return(p)

SpecConc == InitConc /\ [][NextConc]_vars

\* ------------------------------------------------------------------ C3
\* The positions whose next step reads the node map or the relationship map
\* (WritesMap holds those whose next step writes one).
ReadsMap == {"GetNodeByID", "ListNodes", "UpdateNode", "DeleteNode",
             "AddRelationshipFrom", "AddRelationshipTo", "GetRelationshipByID",
             "ListRelationships", "listConnectionsList", "listConnectionsLookup"}
HoldsShared(p)    == p \in readers
HoldsExclusive(p) == writer = p

\* C3: every read of either map is made with the lock held (shared or
\* exclusive) and every write with it held exclusively, so no process,
\* ListConnections included, accesses a map while a writer is inside its
\* critical section.
C3_AccessUnderLock ==
    \A p \in Procs :
        /\ pc[p] \in ReadsMap => (HoldsShared(p) \/ HoldsExclusive(p))
        /\ pc[p] \in WritesMap => HoldsExclusive(p)
        /\ pc[p] \in ReadsMap \cup WritesMap => writer \in {NoProc, p}

\* ------------------------------------------------------------------ SpecRels
\* The nodes' and the relationships' writers and the relationships' readers,
\* from NewGraph().
NextRels ==
    \E p \in Procs :
        \/ InsertNodeSteps(p)
        \/ DeleteNodeSteps(p)
        \/ AddRelationshipSteps(p)
        \/ GetRelationshipByIDSteps(p)
        \/ ListRelationshipsSteps(p)
        \/ Return(p)

SpecRels == Init /\ [][NextRels]_vars

\* ------------------------------------------------------------------ C4
\* The node identities handed out so far: those of the nodes InsertNode stored.
Issued == 1..(nextNodeID - 1)

\* The endpoints of the relationship p is about to store, the lock held.
Endpoints(p) == {loc[p].fromNode.id, loc[p].toNode.id}

\* C4, as claimed: under any interleaving of InsertNode, DeleteNode and
\* AddRelationship, at the moment a relationship is stored both its From and
\* its To are identities of nodes present in the node map.
C4_EndpointsPresentWhenStored ==
    \A p \in Procs :
        pc[p] = "AddRelationshipStore" => Endpoints(p) \subseteq DOMAIN nodes

\* C4, amended: at the moment a relationship is stored, and ever after, both
\* its From and its To are identities of nodes that InsertNode stored and that
\* AddRelationship found in the node map when it looked them up; a DeleteNode
\* that ran after the lookup may have removed the node since.
C4_EndpointsWereStored ==
    /\ \A p \in Procs :
          /\ pc[p] \in {"AddRelationshipRLockTo", "AddRelationshipTo",
                        "AddRelationshipLock", "AddRelationshipStore"} =>
                /\ loc[p].fromNode.id = args[p].from.id
                /\ loc[p].fromNode.id \in Issued
          /\ pc[p] \in {"AddRelationshipLock", "AddRelationshipStore"} =>
                /\ loc[p].toNode.id = args[p].to.id
                /\ loc[p].toNode.id \in Issued
    /\ \A r \in DOMAIN relationships :
          {relationships[r].From, relationships[r].To} \subseteq Issued

\* A relationship is about to be stored whose source a DeleteNode removed
\* after AddRelationship looked it up.
C4_Witness ==
    \E p \in Procs :
        /\ pc[p] = "AddRelationshipStore"
        /\ loc[p].fromNode.id \notin DOMAIN nodes

\* ------------------------------------------------------------------ C5
\* InsertNode calls alone, from NewGraph().
NextInserts ==
    \E p \in Procs :
        \/ InsertNodeSteps(p)
        \/ Return(p)

SpecInserts == Init /\ [][NextInserts]_vars

AllReturned == \A p \in Procs : pc[p] \in {"idle", "done"}

\* C5: N InsertNode calls against an empty store, in any interleaving, leave
\* exactly N nodes with pairwise distinct identities once all have returned:
\* no insert is lost or overwrites another.
C5_NoInsertLost ==
    AllReturned =>
        /\ Cardinality(DOMAIN nodes) = calls
        /\ \A i \in DOMAIN nodes : nodes[i].id = i
        /\ nodes = history.inserted

\* Three inserts have returned.
C5_Witness ==
    /\ AllReturned
    /\ calls >= 3
    /\ Cardinality(DOMAIN nodes) = calls

\* ------------------------------------------------------------------ C6
\* Two nodes in the store and no relationship, no call made yet.
InitPair ==
    /\ nodes = [i \in {1, 2} |-> GraphNode(i)]
    /\ relationships = <<>>
    /\ heap = [b \in Buffers |-> 0]
    /\ nextNodeID = 3
    /\ nextRelID = 1
    /\ history = [NoHistory EXCEPT !.inserted = nodes]
    /\ AtRest(0)

\* The labels of the AddRelationship calls made so far.
UsedLabels ==
    {relationships[r].Label : r \in DOMAIN relationships}
        \cup {args[q].label : q \in AddingRelationship}

\* AddRelationship calls from node 1 to node 2, each with a label of its own;
\* both nodes stay in the store.
NextAddRels ==
    \E p \in Procs :
        \/ /\ AddRelationshipRLockFrom(p)
           /\ args'[p].from.id = 1
           /\ args'[p].to.id = 2
           /\ args'[p].label \notin UsedLabels
        \/ AddRelationshipGetFrom(p)
        \/ AddRelationshipRLockTo(p)
        \/ AddRelationshipGetTo(p)
        \/ AddRelationshipLock(p)
        \/ AddRelationshipStore(p)
        \/ Return(p)

SpecAddRels == InitPair /\ [][NextAddRels]_vars

\* C6: N AddRelationship calls with N distinct labels between one pair of
\* nodes that stay in the store, in any interleaving, all succeed and leave
\* exactly N relationships with pairwise distinct identities once all have
\* returned.
C6_NoRelationshipLost ==
    /\ \A p \in Procs : Returned(p, "AddRelationship") =>
          /\ ret[p].err = ""
          /\ ret[p].rel.ID \in DOMAIN relationships
          /\ relationships[ret[p].rel.ID] = ret[p].rel
    /\ AllReturned =>
          /\ Cardinality(DOMAIN relationships) = calls
          /\ Cardinality({relationships[r].Label : r \in DOMAIN relationships}) = calls
          /\ \A r \in DOMAIN relationships :
                /\ relationships[r].ID = r
                /\ relationships[r].From = 1
                /\ relationships[r].To = 2

\* Three relationships are stored and both processes have returned from an
\* AddRelationship.
C6_Witness ==
    /\ AllReturned
    /\ Cardinality(DOMAIN relationships) = 3
    /\ \A p \in Procs : Returned(p, "AddRelationship")

\* ------------------------------------------------------------------ C7
\* What GetNodeByID hands the caller for each stored node: its identity, name
\* and label, and the bytes its Body refers to.
StoreView ==
    [i \in DOMAIN nodes |->
        [id |-> nodes[i].id, name |-> nodes[i].name, label |-> nodes[i].label,
         bytes |-> heap[nodes[i].Body]]]

\* C7: a Node the store returns is a copy: no write of a caller to a returned
\* value or to the bytes of its Body, and no later write to the buffer passed
\* to InsertNode or UpdateNode, changes what GetNodeByID returns; the stored
\* state changes only through InsertNode, UpdateNode and DeleteNode.
C7_OnlyTheStoreChangesNodes ==
    [][StoreView' # StoreView =>
          \E p \in Procs : InsertNode(p) \/ UpdateNodeStore(p) \/ DeleteNodeDelete(p)]_vars

\* ------------------------------------------------------------------ C8
\* One UpdateNode of node 1 by the updater, beside reads by the reader.
Updater == "p1"
Reader  == "p2"

NextUpdateRead ==
    \/ /\ UpdateNodeLock(Updater)
       /\ nodes[1] = GraphNode(1)
       /\ args'[Updater].id = 1
       /\ args'[Updater].body # GraphNode(1).Body
    \/ UpdateNodeLookup(Updater)
    \/ UpdateNodeStore(Updater)
    \/ GetNodeByIDSteps(Reader)
    \/ ListNodesSteps(Reader)
    \/ \E p \in Procs : Return(p)

SpecUpdateRead == InitPair /\ [][NextUpdateRead]_vars

\* Node 1 before the update and after it.
OldNode == GraphNode(1)
NewNode == IF args[Updater].op = "UpdateNode"
           THEN [OldNode EXCEPT !.Body = args[Updater].body]
           ELSE nodes[1]

\* C8: UpdateNode is atomic for concurrent reads: no read runs inside the
\* update's critical section, and a GetNodeByID or ListNodes beside
\* UpdateNode(id, newBody) returns for that node the whole old node or the
\* whole new one, never a mixture and never no node.
C8_UpdateAtomicForReads ==
    /\ pc[Reader] \in {"GetNodeByID", "ListNodes"} =>
          pc[Updater] \notin {"UpdateNode", "UpdateNodeStore"}
    /\ (Returned(Reader, "GetNodeByID") /\ args[Reader].id = 1) =>
          /\ ret[Reader].err = ""
          /\ ret[Reader].node \in {OldNode, NewNode}
    /\ (Returned(Reader, "ListNodes") /\ NodeMatches(args[Reader], OldNode)) =>
          /\ Cardinality({k \in 1..Len(ret[Reader].list) :
                             ret[Reader].list[k].id = 1}) = 1
          /\ \A k \in 1..Len(ret[Reader].list) :
                ret[Reader].list[k].id = 1 => ret[Reader].list[k] \in {OldNode, NewNode}

\* A read returned the new node before the caller of UpdateNode took its
\* result.
C8_Witness ==
    /\ Returned(Reader, "ListNodes")
    /\ pc[Updater] = "done"
    /\ \E k \in 1..Len(ret[Reader].list) :
          /\ ret[Reader].list[k] = NewNode
          /\ NewNode # OldNode

\* ------------------------------------------------------------------ C9
\* The nodes InsertNode stored that no UpdateNode or DeleteNode has touched.
Untouched == DOMAIN history.inserted \ DOMAIN history.updated

\* C9: InsertNode returns a node with a fresh identity and the name, label
\* and body it was called with; a GetNodeByID of that identity, with no
\* delete or update of it in between, succeeds and returns exactly that
\* identity, name, label and body; and every ListNodes from then on holds the
\* node when its filters match.
C9_InsertThenGet ==
    [][\A q \in Procs :
          /\ InsertNode(q) =>
                /\ ret'[q].err = ""
                /\ ret'[q].node = [id |-> nextNodeID, name |-> args[q].name,
                                   label |-> args[q].label, Body |-> args[q].body]
                /\ ret'[q].node.id \notin DOMAIN nodes
          /\ (GetNodeByID(q) /\ args[q].id \in Untouched) =>
                /\ ret'[q].err = ""
                /\ ret'[q].node = history.inserted[args[q].id]
          /\ ListNodes(q) =>
                \A i \in DOMAIN history.inserted :
                    NodeMatches(args[q], history.inserted[i]) =>
                        \E k \in 1..Len(ret'[q].list) : ret'[q].list[k].id = i
      ]_vars

\* A GetNodeByID returned a node another process had inserted, with all it
\* was inserted with.
C9_Witness ==
    \E q \in Procs :
        /\ Returned(q, "GetNodeByID")
        /\ args[q].id \in Untouched
        /\ ret[q].node = history.inserted[args[q].id]
        /\ \E p \in Procs \ {q} : Returned(p, "InsertNode") /\ ret[p].node = ret[q].node

\* ------------------------------------------------------------------ C10
\* C10: UpdateNode(id, body) on an existing node replaces the body only: the
\* stored node keeps its identity, name and label, every other node and every
\* relationship is unchanged, and the returned node and a later
\* GetNodeByID(id) carry the new body.
C10_UpdateReplacesBodyOnly ==
    [][\A q \in Procs :
          /\ UpdateNodeStore(q) =>
                /\ DOMAIN nodes' = DOMAIN nodes
                /\ args[q].id \in DOMAIN nodes
                /\ \A i \in DOMAIN nodes :
                      nodes'[i] = IF i = args[q].id
                                  THEN [nodes[i] EXCEPT !.Body = args[q].body]
                                  ELSE nodes[i]
                /\ relationships' = relationships
                /\ ret'[q].err = ""
                /\ ret'[q].node = nodes'[args[q].id]
          /\ (GetNodeByID(q) /\ args[q].id \in DOMAIN history.updated) =>
                /\ ret'[q].err = ""
                /\ ret'[q].node = [history.inserted[args[q].id] EXCEPT
                                      !.Body = history.updated[args[q].id]]
      ]_vars

\* A GetNodeByID returned a node with the body of an UpdateNode, another
\* than the body it was inserted with.
C10_Witness ==
    \E q \in Procs :
        /\ Returned(q, "GetNodeByID")
        /\ args[q].id \in DOMAIN history.updated
        /\ ret[q].node.Body = history.updated[args[q].id]
        /\ ret[q].node.Body # history.inserted[args[q].id].Body

\* ------------------------------------------------------------------ SpecStore
\* The writers of the store beside its lookups by identity and the listing of
\* relationships, on a store some earlier calls have built: one node identity
\* still to hand out, at most one relationship stored, two calls left.
InitStore == StoreAfter(MaxNodes - 1, MaxRels - 2, MaxCalls - 2)

NextStore ==
    \E p \in Procs :
        \/ InsertNodeSteps(p)
        \/ GetNodeByIDSteps(p)
        \/ UpdateNodeSteps(p)
        \/ DeleteNodeSteps(p)
        \/ AddRelationshipSteps(p)
        \/ GetRelationshipByIDSteps(p)
        \/ ListRelationshipsSteps(p)
        \/ Return(p)

SpecStore == InitStore /\ [][NextStore]_vars

\* ------------------------------------------------------------------ C11
\* The call of q has failed with an error that wraps ErrNotFound, released
\* the lock and changed neither map.
FailsNotFound(q) ==
    /\ pc'[q] = "done"
    /\ ret'[q] = ErrNotFound
    /\ nodes' = nodes
    /\ relationships' = relationships
    /\ writer' # q
    /\ q \notin readers'

\* C11: GetNodeByID, UpdateNode, DeleteNode and GetRelationshipByID called
\* with an identity that is not in the map they look up always return an error
\* that wraps ErrNotFound and leave the node map and the relationship map
\* unchanged, from the call to the return.
C11_AbsentIsNotFound ==
    [][\A q \in Procs :
          /\ (GetNodeByID(q) /\ args[q].id \notin DOMAIN nodes) => FailsNotFound(q)
          /\ (UpdateNodeLookup(q) /\ args[q].id \notin DOMAIN nodes) => FailsNotFound(q)
          /\ (DeleteNodeLookup(q) /\ args[q].id \notin DOMAIN nodes) => FailsNotFound(q)
          /\ (GetRelationshipByID(q) /\ args[q].id \notin DOMAIN relationships) =>
                FailsNotFound(q)
          /\ (\/ GetNodeByIDRLock(q) \/ UpdateNodeLock(q) \/ DeleteNodeLock(q)
              \/ GetRelationshipByIDRLock(q)) =>
                (nodes' = nodes /\ relationships' = relationships)
      ]_vars

\* A DeleteNode of an identity that was handed out and is no longer stored has
\* failed, beside an UpdateNode of it that failed too.
C11_Witness ==
    \E q \in Procs : \E p \in Procs \ {q} :
        /\ Returned(q, "DeleteNode")
        /\ ret[q] = ErrNotFound
        /\ args[q].id \in Issued
        /\ Returned(p, "UpdateNode")
        /\ ret[p] = ErrNotFound
        /\ args[p].id = args[q].id

\* ------------------------------------------------------------------ C12
\* C12: AddRelationship(from, to, label) fails with an error that wraps
\* ErrNotFound whenever from.id or to.id is not the identity of a stored node
\* when AddRelationship looks it up, whatever Node value the caller holds (a
\* copy of a node deleted since is rejected); a call that fails adds no
\* relationship and leaves the node map unchanged, and only a call whose two
\* lookups succeeded stores a relationship.
C12_AddRelationshipChecksTheStore ==
    [][\A q \in Procs :
          /\ (AddRelationshipGetFrom(q) /\ args[q].from.id \notin DOMAIN nodes) =>
                FailsNotFound(q)
          /\ (AddRelationshipGetTo(q) /\ args[q].to.id \notin DOMAIN nodes) =>
                FailsNotFound(q)
          /\ (\/ AddRelationshipRLockFrom(q) \/ AddRelationshipGetFrom(q)
              \/ AddRelationshipRLockTo(q) \/ AddRelationshipGetTo(q)
              \/ AddRelationshipLock(q)) =>
                (nodes' = nodes /\ relationships' = relationships)
          /\ AddRelationshipStore(q) =>
                /\ nodes' = nodes
                /\ ret'[q].err = ""
                /\ loc[q].fromNode.id = args[q].from.id
                /\ loc[q].toNode.id = args[q].to.id
                /\ loc[q].fromNode.name # ""
                /\ loc[q].toNode.name # ""
      ]_vars

\* An AddRelationship has failed on a destination the caller holds a full copy
\* of: the node was stored when the call started and deleted before the
\* lookup.
C12_Witness ==
    \E q \in Procs :
        /\ Returned(q, "AddRelationship")
        /\ ret[q] = ErrNotFound
        /\ args[q].to.name # ""
        /\ args[q].to.id \notin DOMAIN nodes
        /\ relationships = <<>>

\* ------------------------------------------------------------------ SpecLists
\* A store some earlier calls have built, with relationships of any label: any
\* of the nodes 1..MaxNodes present, up to MaxRels - 1 relationships, one call
\* left.
InitLists ==
    /\ \E present \in SUBSET NodeIDs : nodes = [i \in present |-> GraphNode(i)]
    /\ \E k \in 0..(MaxRels - 1) :
          \E ends \in [1..k -> NodeIDs \X NodeIDs], labels \in [1..k -> RelLabels] :
             /\ relationships =
                   [i \in 1..k |-> [GraphRel(i, ends[i]) EXCEPT !.Label = labels[i]]]
             /\ nextRelID = k + 1
    /\ heap = [b \in Buffers |-> 0]
    /\ nextNodeID = MaxNodes + 1
    /\ history = [NoHistory EXCEPT !.inserted = nodes]
    /\ AtRest(MaxCalls - 1)

\* ListNodes and ListRelationships alone.
NextLists ==
    \/ ListNodesSteps(Main)
    \/ ListRelationshipsSteps(Main)
    \/ Return(Main)

SpecLists == InitLists /\ [][NextLists]_vars

\* ------------------------------------------------------------------ C13
\* The set of nodes a ListNodes call with the arguments a returns.
NodesListed(a) == {nodes[i] : i \in {j \in DOMAIN nodes : NodeMatches(a, nodes[j])}}

\* The arguments a with only its label clause, and with only its name clause.
OnlyLabel(a) == [a EXCEPT !.name = ""]
OnlyName(a)  == [a EXCEPT !.label = ""]

\* C13: ListNodes and ListRelationships return exactly the stored elements
\* for which every given predicate is true, each once (with no predicate,
\* every stored element); so ListNodes with a label clause and a name clause
\* returns, as a set, the intersection of what it returns with the label
\* clause alone and with the name clause alone.
C13_ListsFilterByAnd ==
    /\ Returned(Main, "ListNodes") =>
          LET a == args[Main] IN
          /\ NoDuplicates(ret[Main].list)
          /\ Range(ret[Main].list) =
                {n \in {nodes[i] : i \in DOMAIN nodes} :
                    /\ (a.label = "" \/ n.label = a.label)
                    /\ (a.name = "" \/ n.name = a.name)}
          /\ Range(ret[Main].list) = NodesListed(OnlyLabel(a)) \cap NodesListed(OnlyName(a))
    /\ Returned(Main, "ListRelationships") =>
          LET a == args[Main] IN
          /\ NoDuplicates(ret[Main].list)
          /\ Range(ret[Main].list) =
                {r \in {relationships[i] : i \in DOMAIN relationships} :
                    /\ (a.label = "" \/ r.Label = a.label)
                    /\ (a.fromID = AnyID \/ r.From = a.fromID)
                    /\ (a.toID = AnyID \/ r.To = a.toID)}

\* A ListNodes with a label clause and a name clause returned one node and
\* left out a stored node of that label with another name.
C13_Witness ==
    /\ Returned(Main, "ListNodes")
    /\ args[Main].label # ""
    /\ args[Main].name # ""
    /\ Len(ret[Main].list) = 1
    /\ \E i \in DOMAIN nodes :
          nodes[i].label = args[Main].label /\ nodes[i].name # args[Main].name

\* ------------------------------------------------------------------ C14
\* The stored relationships the filters of a ListRelationships call accept.
RelsListed(a) ==
    {relationships[i] : i \in {j \in DOMAIN relationships : RelMatches(a, relationships[j])}}

\* C14: DeleteNode(id) on a stored node removes that node's entry and nothing
\* else: every other node and the relationship map are unchanged, so the
\* relationships from or to the deleted node stay stored, and
\* GetRelationshipByID and ListRelationships still return them.
C14_DeleteRemovesOneNode ==
    [][\A q \in Procs :
          /\ DeleteNodeDelete(q) =>
                /\ args[q].id \in DOMAIN nodes
                /\ DOMAIN nodes' = DOMAIN nodes \ {args[q].id}
                /\ \A i \in DOMAIN nodes' : nodes'[i] = nodes[i]
                /\ relationships' = relationships
                /\ ret'[q].err = ""
          /\ (GetRelationshipByID(q) /\ args[q].id \in 1..(nextRelID - 1)) =>
                /\ ret'[q].err = ""
                /\ ret'[q].rel.ID = args[q].id
          /\ ListRelationships(q) =>
                /\ Range(ret'[q].list) = RelsListed(args[q])
                /\ \A r \in 1..(nextRelID - 1) :
                      (r \in DOMAIN relationships /\ RelMatches(args[q], relationships[r]))
                         <=> (\E k \in 1..Len(ret'[q].list) : ret'[q].list[k].ID = r)
      ]_vars

\* A GetRelationshipByID has returned a relationship whose source a DeleteNode
\* of the other process has just removed.
C14_Witness ==
    \E q \in Procs : \E p \in Procs \ {q} :
        /\ Returned(q, "GetRelationshipByID")
        /\ ret[q].err = ""
        /\ ret[q].rel.From \notin DOMAIN nodes
        /\ Returned(p, "DeleteNode")
        /\ ret[p].err = ""
        /\ args[p].id = ret[q].rel.From

\* ------------------------------------------------------------------ C15
\* C15: ListConnections(from, to) returns the empty sequence when there is no
\* directed path from `from` to `to` (none through stored nodes), and when
\* from and to are the same node, also when that node lies on a directed cycle
\* or has a relationship to itself.
C15_EmptyWithoutPath ==
    Returned(Main, "ListConnections") =>
        /\ args[Main].from.id = args[Main].to.id => ret[Main].list = <<>>
        /\ SimplePaths(args[Main].from, args[Main].to) = {} => ret[Main].list = <<>>

\* A search from a node to itself returned nothing although the node has a
\* relationship to itself and lies on a cycle through another stored node.
C15_Witness ==
    /\ Returned(Main, "ListConnections")
    /\ args[Main].from.id = args[Main].to.id
    /\ ret[Main].list = <<>>
    /\ \E a, b, c \in DOMAIN relationships :
          /\ relationships[a].From = args[Main].from.id
          /\ relationships[a].To = args[Main].from.id
          /\ relationships[b].From = args[Main].from.id
          /\ relationships[b].To # args[Main].from.id
          /\ relationships[b].To \in DOMAIN nodes
          /\ relationships[c].From = relationships[b].To
          /\ relationships[c].To = args[Main].from.id

\* ------------------------------------------------------------------ C16
\* C16: relationships are permanent and immutable: no step of any operation
\* removes or changes an entry of the relationship map (a DeleteNode or an
\* UpdateNode of an endpoint included), AddRelationship adds its relationship
\* under an identity of its own, and GetRelationshipByID on the identity of a
\* relationship AddRelationship stored succeeds and returns its From, To and
\* Label.
C16_RelationshipsArePermanent ==
    /\ [][/\ \A r \in DOMAIN relationships :
               /\ r \in DOMAIN relationships'
               /\ relationships'[r] = relationships[r]
          /\ \A q \in Procs :
               /\ AddRelationshipStore(q) =>
                     /\ ret'[q].rel.ID \notin DOMAIN relationships
                     /\ ret'[q].rel.ID \in DOMAIN relationships'
                     /\ relationships'[ret'[q].rel.ID] = ret'[q].rel
                     /\ ret'[q].rel.From = args[q].from.id
                     /\ ret'[q].rel.To = args[q].to.id
                     /\ ret'[q].rel.Label = args[q].label
               /\ (GetRelationshipByID(q) /\ args[q].id \in DOMAIN relationships) =>
                     /\ ret'[q].err = ""
                     /\ ret'[q].rel = relationships[args[q].id]
         ]_vars
    /\ [](DOMAIN relationships = 1..(nextRelID - 1))

\* A GetRelationshipByID has returned a relationship beside an UpdateNode of
\* its destination, after an earlier DeleteNode of its source.
C16_Witness ==
    \E q \in Procs : \E p \in Procs \ {q} :
        /\ Returned(q, "GetRelationshipByID")
        /\ ret[q].err = ""
        /\ ret[q].rel.From \notin DOMAIN nodes
        /\ Returned(p, "UpdateNode")
        /\ ret[p].err = ""
        /\ args[p].id = ret[q].rel.To

\* ------------------------------------------------------------------ C17
\* The identities of the nodes a chain passes through, its two ends left out.
Inner(chain) == {chain[k].node.id : k \in 2..(Len(chain) - 1)}

\* C17: ListConnections skips a relationship whose destination is not `to`
\* and is not the identity of a stored node: the search never goes on from a
\* missing node, and no chain it returns passes through a node that is not
\* stored (one a DeleteNode removed, its relationships left behind).
C17_DanglingSkipped ==
    /\ \A k \in 2..Len(stack[Main]) :
          /\ stack[Main][k].from.id \in DOMAIN nodes
          /\ stack[Main][k].from = nodes[stack[Main][k].from.id]
    /\ Returned(Main, "ListConnections") =>
          \A c \in 1..Len(ret[Main].list) : Inner(ret[Main].list[c]) \subseteq DOMAIN nodes

\* A search from A to C returned a chain although A has a relationship to a
\* deleted node B, which has a relationship to C.
C17_Witness ==
    /\ Returned(Main, "ListConnections")
    /\ ret[Main].list # <<>>
    /\ \E a, b \in DOMAIN relationships :
          /\ relationships[a].From = args[Main].from.id
          /\ relationships[a].To \notin DOMAIN nodes \cup {args[Main].from.id, args[Main].to.id}
          /\ relationships[b].From = relationships[a].To
          /\ relationships[b].To = args[Main].to.id

\* ------------------------------------------------------------------ C18
\* The identities on the path from the source of the search to the node of
\* its k-th frame.
PathIDs(p, k) == {stack[p][j].from.id : j \in 1..k}

\* The k-th frame of the search has made its visited[from.id] = struct{}{}.
Entered(p, k) == k < Len(stack[p]) \/ pc[p] # "listConnections"

ChainStore ==
    /\ nodes = [i \in {1, 2} |-> GraphNode(i)]
    /\ relationships = [i \in {1} |-> GraphRel(i, <<1, 2>>)]
    /\ heap = [b \in Buffers |-> 0]
    /\ nextNodeID = 3
    /\ nextRelID = 2
    /\ history = [NoHistory EXCEPT !.inserted = nodes]

InitChain == ChainStore /\ AtRest(MaxCalls - 2)

\* The steps of the operations of p.
Steps(p) ==
    \/ InsertNodeSteps(p)
    \/ GetNodeByIDSteps(p)
    \/ ListNodesSteps(p)
    \/ UpdateNodeSteps(p)
    \/ DeleteNodeSteps(p)
    \/ AddRelationshipSteps(p)
    \/ GetRelationshipByIDSteps(p)
    \/ ListRelationshipsSteps(p)
    \/ ListConnectionsSteps(p)
    \/ listConnectionsLookupRace(p)
    \/ listConnectionsLookupTorn(p)

NextFair == \E p \in Procs : Steps(p) \/ Return(p)

\* Every operation of the store, each goroutine scheduled again and again: a
\* step that stays possible is taken.
SpecFair == InitChain /\ [][NextFair]_vars /\ \A p \in Procs : WF_vars(Steps(p))

\* ------------------------------------------------------------------ C19
\* The positions at which a process is about to acquire the lock.
Acquires == {"AddRelationshipRLockTo", "AddRelationshipLock", "listConnections"}

HoldsLock(p) == p \in readers \/ writer = p

\* No process acquires the lock while it holds it, and none holds it after
\* its operation has returned.
LockDiscipline ==
    \A p \in Procs :
        /\ pc[p] \in Acquires \cup {"idle", "done"} => ~HoldsLock(p)
        /\ ~(p \in readers /\ writer = p)

\* C19: the store is deadlock-free: no operation acquires the lock while it
\* holds it, every operation releases it on every return path, and every
\* operation of a finite set of operations started concurrently eventually
\* returns.
C19_AllReturn ==
    /\ []LockDiscipline
    /\ \A p \in Procs : (pc[p] \notin {"idle", "done"}) ~> (pc[p] = "done")

\* ------------------------------------------------------------------ SpecSearch
\* ListConnections by one process beside the InsertNode, DeleteNode and
\* AddRelationship calls of the other, on nodes 1 and 2 with a relationship
\* from 1 to 2.
Writer == "p2"

NextSearch ==
    \/ ListConnectionsSteps(Main)
    \/ listConnectionsLookupRace(Main)
    \/ listConnectionsLookupTorn(Main)
    \/ InsertNodeSteps(Writer)
    \/ DeleteNodeSteps(Writer)
    \/ AddRelationshipSteps(Writer)
    \/ \E p \in Procs : Return(p)

InitSearch == ChainStore /\ AtRest(0)

SpecSearch == InitSearch /\ [][NextSearch]_vars

\* ------------------------------------------------------------------ C20
\* A chain from `from` to `to`: it starts at from and ends at to, the
\* relationship of every link goes from the node of the link to the node of
\* the next link, no node identity occurs twice, and every relationship of it
\* is stored.
WellFormed(chain, from, to) ==
    /\ Len(chain) >= 2
    /\ chain[1].node = from
    /\ chain[Len(chain)] = [node |-> to, rel |-> ZeroRel]
    /\ \A k \in 1..(Len(chain) - 1) :
          /\ chain[k].rel.From = chain[k].node.id
          /\ chain[k].rel.To = chain[k + 1].node.id
          /\ chain[k].rel.ID \in DOMAIN relationships
          /\ relationships[chain[k].rel.ID] = chain[k].rel
    /\ \A a, b \in 1..Len(chain) : a # b => chain[a].node.id # chain[b].node.id

\* C20: when ListConnections runs beside writers (InsertNode, DeleteNode,
\* AddRelationship), every chain it returns is well formed: from `from` to
\* `to`, link by link along its relationships, without a repeated node
\* identity, every relationship of it stored when the call returns.
C20_ChainsWellFormed ==
    Returned(Main, "ListConnections") =>
        \A c \in 1..Len(ret[Main].list) :
            WellFormed(ret[Main].list[c], args[Main].from, args[Main].to)

\* The search returned a chain over three nodes whose last relationship and
\* whose destination the writer stored after the search had started.
C20_Witness ==
    /\ Returned(Main, "ListConnections")
    /\ args[Main].to.name = ""
    /\ \E c \in 1..Len(ret[Main].list) :
          /\ Len(ret[Main].list[c]) = 3
          /\ ret[Main].list[c][2].rel.ID = 2
          /\ ret[Main].list[c][2].rel.To \in DOMAIN nodes

====
